---- MODULE Spec2Model ----
\* A state-machine model of condacolab.py: install_from_url (download, install,
\* patch configuration, patch live process, replace executable, request the
\* kernel restart), the kernel restart that follows it, and check().
EXTENDS FiniteSets, Integers, Sequences, TLC

\* ------------------------------------------------------------------ bounds
MaxCalls == 2
MaxPathLen == 3
MaxLdLen == 3

\* ------------------------------------------------------- names and strings
PREFIX == "/usr/local"
Prefixes == {PREFIX}
installer_fn == "__installer__.sh"
HostExe == "/usr/bin/python3"
HostSitePackages == "/usr/lib/python3/dist-packages"
IPythonConfig == "/etc/ipython/ipython_config.py"
LD == "LD_LIBRARY_PATH"

Real(path) == path \o ".real"
PrefixPython(p) == p \o "/bin/python"
Pinned(p) == p \o "/conda-meta/pinned"
Condarc(p) == p \o "/.condarc"
LibDir(p) == p \o "/lib"
SitePackages(p, ver) == p \o "/lib/python" \o ver[1] \o "." \o ver[2] \o "/site-packages"
StdLib(p, ver) == p \o "/lib/python" \o ver[1] \o "." \o ver[2]

ExePaths == {HostExe, Real(HostExe)} \cup {PrefixPython(p) : p \in Prefixes}
               \cup {Real(PrefixPython(p)) : p \in Prefixes}
TextPaths == {IPythonConfig} \cup {Pinned(p) : p \in Prefixes}
               \cup {Condarc(p) : p \in Prefixes}
Paths == {installer_fn} \cup ExePaths \cup TextPaths

\* ------------------------------------------------------------ file contents
NoFile == [kind |-> "none"]
HostBinary == [kind |-> "binary", id |-> "host"]
DistBinary(p) == [kind |-> "binary", id |-> p]
Payload(url) == [kind |-> "payload", url |-> url, complete |-> TRUE]
PartialPayload(url) == [kind |-> "payload", url |-> url, complete |-> FALSE]
\* A text file: its complete lines, and the unterminated piece a torn write
\* left at its end ("" when there is none).
Text(lines) == [kind |-> "text", lines |-> lines, frag |-> ""]
Lines(f) == IF f.kind = "text" THEN f.lines ELSE <<>>
Frag(f) == IF f.kind = "text" THEN f.frag ELSE ""

\* ------------------------------------------------------------ pure helpers
RECURSIVE Count(_, _)
Count(x, s) == IF s = <<>> THEN 0
               ELSE (IF Head(s) = x THEN 1 ELSE 0) + Count(x, Tail(s))

InSeq(x, s) == \E i \in 1..Len(s) : s[i] = x

RECURSIVE Without(_, _)
Without(x, s) == IF s = <<>> THEN <<>>
                 ELSE IF Head(s) = x THEN Without(x, Tail(s))
                 ELSE <<Head(s)>> \o Without(x, Tail(s))

IsPrefix(s, t) == Len(s) <= Len(t) /\ SubSeq(t, 1, Len(s)) = s

RECURSIVE JoinDot(_)
JoinDot(parts) == IF parts = <<>> THEN ""
                  ELSE IF Len(parts) = 1 THEN parts[1]
                  ELSE parts[1] \o "." \o JoinDot(Tail(parts))

FirstTwo(parts) == SubSeq(parts, 1, IF Len(parts) < 2 THEN Len(parts) ELSE 2)

\* os.environ.get("CUDA_VERSION", "*.*.*").split(".")[:2] joined by "."
\* The variable is held already split at the dots; <<>> stands for "not set".
CudaDefault == <<"*", "*", "*">>
CudaVersion(cudaSplit) ==
    JoinDot(FirstTwo(IF cudaSplit = <<>> THEN CudaDefault ELSE cudaSplit))

PinLines(ver, cudaSplit) ==
    << "python " \o ver[1] \o "." \o ver[2] \o ".*",
       "python_abi " \o ver[1] \o "." \o ver[2] \o ".* *cp" \o ver[1] \o ver[2] \o "*",
       "cudatoolkit " \o CudaVersion(cudaSplit) \o ".*" >>
CondarcLine == "always_yes: true"

\* open(path, "a") ; write(lines): the file exists afterwards, and the first
\* line written completes an unterminated piece at the end of the file.
AppendRewrites(f, lines) == Text(lines)
AppendLines(f, lines) ==
    IF lines = <<>> THEN [kind |-> "text", lines |-> Lines(f), frag |-> Frag(f)]
    ELSE Text(Lines(f) \o <<Frag(f) \o lines[1]>> \o Tail(lines))
\* The same write cut short: `lines` in full, then only `piece` of the next.
AppendTorn(f, lines, piece) ==
    LET g == AppendLines(f, lines) IN [g EXCEPT !.frag = g.frag \o piece]
\* What a write cut inside a line leaves of it.
PinPieces == <<"python", "python_abi", "cudatoolkit">>
CondarcPiece == "alway"

\* if sitepackages not in sys.path: sys.path.insert(0, sitepackages)
InsertAlways(path, sp) == <<sp>> \o path
InsertSitePackages(path, sp) == IF InSeq(sp, path) THEN path ELSE <<sp>> \o path

\* A dict is a sequence of <<key, value>> pairs with distinct keys, in
\* insertion order; assignment to an existing key keeps its position.
NoneEnv == [given |-> FALSE, items |-> <<>>]
Dict(items) == [given |-> TRUE, items |-> items]
HasKey(items, k) == \E i \in 1..Len(items) : items[i][1] = k
DictSet(items, k, v) ==
    IF HasKey(items, k)
    THEN [i \in 1..Len(items) |-> IF items[i][1] = k THEN <<k, v>> ELSE items[i]]
    ELSE Append(items, <<k, v>>)

\* env = env or {} ; env["LD_LIBRARY_PATH"] = f'"{prefix}/lib:$LD_LIBRARY_PATH"'
SystemLd(p) == "\"" \o LibDir(p) \o ":$LD_LIBRARY_PATH\""
OrEmpty(envArg) == IF envArg.given /\ envArg.items # <<>> THEN envArg.items ELSE <<>>
MergeEnvKeepCaller(envArg, p) ==
    IF HasKey(OrEmpty(envArg), LD) THEN OrEmpty(envArg)
    ELSE Append(OrEmpty(envArg), <<LD, SystemLd(p)>>)
MergeEnv(envArg, p) == DictSet(OrEmpty(envArg), LD, SystemLd(p))

\* The shim: "#!/bin/bash" and "exec env {envstr} {prefix}/bin/python -x $@",
\* the exec line held as its space-separated words.
Assignments(items) == [i \in 1..Len(items) |-> items[i][1] \o "=" \o items[i][2]]
ExecLine(items, p) ==
    <<"exec", "env">> \o Assignments(items) \o <<PrefixPython(p), "-x", "$@">>
Shim(items, p) == [kind |-> "shim", shebang |-> "#!/bin/bash",
                   exec |-> ExecLine(items, p), env |-> items,
                   target |-> PrefixPython(p), mode |-> "rw"]
\* What a failed write leaves at the path: nothing, the first line, or the
\* first line and the beginning of the second.
EmptyFile == [kind |-> "shim", shebang |-> "", exec |-> <<>>, env |-> <<>>,
              target |-> "", mode |-> "rw"]
ShebangOnly == [EmptyFile EXCEPT !.shebang = "#!/bin/bash"]
TornShim == [ShebangOnly EXCEPT !.exec = <<"exec", "env">>]
MarkExecutable(f) == IF f.kind = "shim" THEN [f EXCEPT !.mode = "rwx"] ELSE f

\* os.rename(src, dst)
RenameCopies(files, src, dst) == [files EXCEPT ![dst] = files[src]]
Rename(files, src, dst) == [files EXCEPT ![dst] = files[src], ![src] = NoFile]

\* os.unlink(path)
UnlinkKeeps(files, path) == files
Unlink(files, path) == [files EXCEPT ![path] = NoFile]

\* ------------------------------------------------------------ control flow
StepOrder == << "download", "install", "unlink", "mkdir", "pin", "condarc",
                "ipyconfig", "syspath", "env", "rename", "writeshim", "chmod",
                "shutdown" >>
StepIndex(step) == CHOOSE i \in 1..Len(StepOrder) : StepOrder[i] = step
NextPc(step) == IF StepIndex(step) = Len(StepOrder) THEN "done"
                ELSE StepOrder[StepIndex(step) + 1]

\* An exception raised by a step is caught nowhere in install_from_url.
AfterRaiseSwallowed(step) == NextPc(step)
AfterRaise(step) == "raised"

\* subprocess.call returns the exit status, which the caller discards; it
\* raises only when the program cannot be started.
AfterCheckCall(status, step) == IF status = 0 THEN NextPc(step) ELSE "raised"
AfterCall(status, step) == NextPc(step)

\* ------------------------------------------------------------------- inputs
InstallerUrls == { "Mambaforge-colab-Linux-x86_64.sh" }
Versions == { <<"3", "6">>, <<"3", "7">> }
CallerLd == "/opt/lib"
EnvArgs == { NoneEnv, Dict(<<>>), Dict(<< <<"FOO", "bar">> >>),
             Dict(<< <<LD, CallerLd>> >>),
             Dict(<< <<LD, CallerLd>>, <<"FOO", "\"a b\"">> >>) }
ExitStatuses == {0, 1}

\* -------------------------------------------------------------------- state
VARIABLES fs,            \* path -> file content
          condaMeta,     \* prefixes whose conda-meta directory exists
          sysPath,       \* sys.path of the running interpreter
          executable,    \* sys.executable of the running interpreter
          pyver,         \* sys.version_info[:2], as strings
          cudaEnv,       \* os.environ["CUDA_VERSION"] split at ".", <<>> if unset
          pc,            \* position in install_from_url / kernel state
          args,          \* installer_url, prefix, env of the current call
          env,           \* the local env after the merge
          status,        \* exit statuses of the two subprocesses, -1 = not run
          steps,         \* steps of the current call that have completed
          failedAt,      \* the step of the current call that raised, or "none"
          restartRequested, \* do_shutdown(True) was called in this process
          nCalls,        \* calls of install_from_url so far
          callLimit,     \* calls of install_from_url the scenario makes
          start,         \* files, sys.path, sys.executable when the call began
          completed,     \* prefix -> number of calls that returned
          hostRuns,      \* calls that returned with sys.executable = HostExe
          aborted,       \* calls that raised
          osEnvLd,       \* os.environ LD_LIBRARY_PATH: [set, value]
          launcherLd,    \* LD_LIBRARY_PATH of the host process that starts kernels
          condaFound,    \* find_executable("conda") is not None
          checkResult    \* outcome of the last check(prefix)

vars == << fs, condaMeta, sysPath, executable, pyver, cudaEnv, pc, args, env,
           status, steps, failedAt, restartRequested, nCalls, callLimit, start,
           completed, hostRuns, aborted, osEnvLd, launcherLd, condaFound,
           checkResult >>

hostVars == << pyver, cudaEnv, osEnvLd, launcherLd, condaFound, checkResult, callLimit >>
countVars == << nCalls, start, completed, hostRuns, aborted >>

NoArgs == [url |-> "", prefix |-> PREFIX, env |-> NoneEnv]
NoStatus == [installer |-> -1, chmod |-> -1]
Snapshot(files, path, exe, req) ==
    [fs |-> files, sysPath |-> path, executable |-> exe, requested |-> req]
NoCheck == [prefix |-> "", exc |-> "", msg |-> ""]
Unset == [set |-> FALSE, value |-> <<>>]

FreshFiles == [q \in Paths |-> IF q = HostExe THEN HostBinary ELSE NoFile]
ForeignPin == "numpy 1.19.*"
PinnedFiles == [FreshFiles EXCEPT ![Pinned(PREFIX)] = Text(<<ForeignPin>>)]
\* The hosts a first call is made on: interpreter version, CUDA_VERSION, files.
Hosts == { [ver |-> <<"3", "6">>, cuda |-> <<>>, files |-> FreshFiles],
           [ver |-> <<"3", "7">>, cuda |-> <<"11", "2", "67">>, files |-> FreshFiles],
           [ver |-> <<"3", "6">>, cuda |-> <<"10">>, files |-> PinnedFiles],
           [ver |-> <<"3", "7">>, cuda |-> <<>>, files |-> PinnedFiles] }

InitCommon ==
    /\ executable = HostExe
    /\ pc = "idle"
    /\ args = NoArgs
    /\ env = <<>>
    /\ status = NoStatus
    /\ steps = <<>>
    /\ failedAt = "none"
    /\ restartRequested = FALSE
    /\ nCalls = 0
    /\ completed = [p \in Prefixes |-> 0]
    /\ hostRuns = 0
    /\ aborted = 0
    /\ checkResult = NoCheck

\* sys.path values and LD_LIBRARY_PATH values up to a length. An
\* LD_LIBRARY_PATH value is held as the pieces it is made of, so that a
\* substring test is a test for a contiguous run of pieces.
RECURSIVE SeqsUpTo(_, _)
SeqsUpTo(S, n) == IF n = 0 THEN {<<>>}
                  ELSE LET shorter == SeqsUpTo(S, n - 1)
                       IN shorter \cup {Append(q, x) : q \in shorter, x \in S}
PathEntries(ver) == {SitePackages(p, ver) : p \in Prefixes} \cup {HostSitePackages, "/content"}
LdPieces == Prefixes \cup {"/lib", "64", ":"}

Init ==
    /\ InitCommon
    /\ callLimit = MaxCalls
    /\ \E h \in Hosts :
          /\ fs = h.files
          /\ pyver = h.ver
          /\ cudaEnv = h.cuda
    /\ condaMeta = {p \in Prefixes : fs[Pinned(p)].kind # "none"}
    /\ sysPath = <<HostSitePackages>>
    /\ start = Snapshot(fs, sysPath, executable, FALSE)
    /\ osEnvLd = Unset
    /\ launcherLd = osEnvLd
    /\ condaFound = FALSE

\* ------------------------------------------------------- install_from_url
\* Advance after `step` succeeded.
Advance(step) ==
    /\ pc' = NextPc(step)
    /\ steps' = Append(steps, step)
    /\ failedAt' = failedAt

\* `step` raised.
Raise(step) ==
    /\ pc' = AfterRaise(step)
    /\ steps' = IF pc' = "raised" THEN steps ELSE Append(steps, step)
    /\ failedAt' = step
    /\ aborted' = aborted + 1
    /\ UNCHANGED << nCalls, start, completed, hostRuns >>

\* A subprocess returned `st` from `step`.
Returned(st, step) ==
    /\ pc' = AfterCall(st, step)
    /\ steps' = IF pc' = "raised" THEN steps ELSE Append(steps, step)
    /\ failedAt' = IF pc' = "raised" THEN step ELSE failedAt
    /\ aborted' = IF pc' = "raised" THEN aborted + 1 ELSE aborted
    /\ UNCHANGED << nCalls, start, completed, hostRuns >>

Call ==
    /\ pc \in {"idle", "done", "raised"}
    /\ nCalls < callLimit
    /\ \E u \in InstallerUrls, p \in Prefixes, e \in EnvArgs :
          args' = [url |-> u, prefix |-> p, env |-> e]
    /\ pc' = "download"
    /\ steps' = <<>>
    /\ failedAt' = "none"
    /\ status' = NoStatus
    /\ env' = <<>>
    /\ nCalls' = nCalls + 1
    /\ start' = Snapshot(fs, sysPath, executable, restartRequested)
    /\ UNCHANGED << fs, condaMeta, sysPath, executable, restartRequested,
                    completed, hostRuns, aborted >>
    /\ UNCHANGED hostVars

\* with urlopen(installer_url) as response, open(installer_fn, "wb") as out:
\*     shutil.copyfileobj(response, out)
Download ==
    /\ pc = "download"
    /\ \/ /\ fs' = [fs EXCEPT ![installer_fn] = Payload(args.url)]
          /\ Advance("download")
          /\ UNCHANGED countVars
       \/ /\ fs' = fs                      \* urlopen or open raised
          /\ Raise("download")
       \/ /\ fs' = [fs EXCEPT ![installer_fn] = PartialPayload(args.url)]
          /\ Raise("download")             \* the copy raised part-way
    /\ UNCHANGED << condaMeta, sysPath, executable, args, env, status,
                    restartRequested >>
    /\ UNCHANGED hostVars

\* What the installer leaves under the prefix: with exit status 0 the
\* distribution's tree, interpreter included; otherwise nothing new.
Installed(files, p, st) ==
    IF st = 0 THEN [files EXCEPT ![PrefixPython(p)] = DistBinary(p)] ELSE files

\* call(["bash", installer_fn, "-bfp", str(prefix)])
Install ==
    /\ pc = "install"
    /\ \/ \E st \in ExitStatuses :
             /\ fs' = Installed(fs, args.prefix, st)
             /\ condaMeta' = IF st = 0 THEN condaMeta \cup {args.prefix} ELSE condaMeta
             /\ status' = [status EXCEPT !.installer = st]
             /\ Returned(st, "install")
       \/ /\ Raise("install")             \* bash could not be started
          /\ UNCHANGED << fs, condaMeta, status >>
    /\ UNCHANGED << sysPath, executable, args, env, restartRequested >>
    /\ UNCHANGED hostVars

\* os.unlink(installer_fn)
UnlinkInstaller ==
    /\ pc = "unlink"
    /\ \/ /\ fs' = Unlink(fs, installer_fn)
          /\ Advance("unlink")
          /\ UNCHANGED countVars
       \/ /\ fs' = fs                      \* the directory refuses the removal
          /\ Raise("unlink")
       \/ /\ fs' = [fs EXCEPT ![installer_fn] = NoFile]
          /\ Raise("unlink")              \* the file was gone already
    /\ UNCHANGED << condaMeta, sysPath, executable, args, env, status,
                    restartRequested >>
    /\ UNCHANGED hostVars

\* condameta.mkdir(parents=True, exist_ok=True)
Mkdir ==
    /\ pc = "mkdir"
    /\ \/ /\ condaMeta' = condaMeta \cup {args.prefix}
          /\ Advance("mkdir")
          /\ UNCHANGED countVars
       \/ /\ args.prefix \notin condaMeta
          /\ condaMeta' = condaMeta
          /\ Raise("mkdir")
    /\ UNCHANGED << fs, sysPath, executable, args, env, status, restartRequested >>
    /\ UNCHANGED hostVars

\* with open(condameta / "pinned", "a") as f: three writes
Pin ==
    /\ pc = "pin"
    /\ LET path == Pinned(args.prefix)
           lines == PinLines(pyver, cudaEnv)
       IN \/ /\ fs' = [fs EXCEPT ![path] = AppendLines(fs[path], lines)]
             /\ Advance("pin")
             /\ UNCHANGED countVars
          \/ /\ fs' = fs                   \* open raised
             /\ Raise("pin")
          \/ /\ \E k \in 0..2 :            \* a write raised after k lines
                   fs' = [fs EXCEPT ![path] = AppendLines(fs[path], SubSeq(lines, 1, k))]
             /\ Raise("pin")
          \/ /\ \E k \in 0..2 :            \* ... or inside line k + 1
                   fs' = [fs EXCEPT ![path] =
                             AppendTorn(fs[path], SubSeq(lines, 1, k), PinPieces[k + 1])]
             /\ Raise("pin")
    /\ UNCHANGED << condaMeta, sysPath, executable, args, env, status,
                    restartRequested >>
    /\ UNCHANGED hostVars

\* with open(prefix / ".condarc", "a") as f: f.write("always_yes: true\n")
CondarcStep ==
    /\ pc = "condarc"
    /\ LET path == Condarc(args.prefix)
       IN \/ /\ fs' = [fs EXCEPT ![path] = AppendLines(fs[path], <<CondarcLine>>)]
             /\ Advance("condarc")
             /\ UNCHANGED countVars
          \/ /\ fs' = fs                   \* open raised
             /\ Raise("condarc")
          \/ /\ \E piece \in {"", CondarcPiece} :   \* the write raised
                   fs' = [fs EXCEPT ![path] = AppendTorn(fs[path], <<>>, piece)]
             /\ Raise("condarc")
    /\ UNCHANGED << condaMeta, sysPath, executable, args, env, status,
                    restartRequested >>
    /\ UNCHANGED hostVars

\* The start-up snippet is determined by the site-packages path it names. It
\* begins with a newline, so it never continues what the file ends with: an
\* unterminated piece at the end of the file becomes an entry of its own.
Snippet(p, ver) == SitePackages(p, ver)
AppendSnippet(f, snippet) ==
    Text(Lines(f) \o (IF Frag(f) = "" THEN <<>> ELSE <<Frag(f)>>) \o <<snippet>>)
\* What a write cut inside the snippet leaves of it: a piece that is still
\* valid Python, one that ends inside the list and breaks the file, or the
\* whole assignment without the blanks that follow it (the snippet itself as
\* the unterminated piece).
HarmlessPiece == "c.InteractiveShellApp"
BreakingPiece == "c.InteractiveShellApp.exec_lines = ["
TornSnippet(f, piece) ==
    [kind |-> "text", lines |-> Lines(f) \o (IF Frag(f) = "" THEN <<>> ELSE <<Frag(f)>>),
     frag |-> piece]

\* with open("/etc/ipython/ipython_config.py", "a") as f: f.write(snippet)
IpyConfigStep ==
    /\ pc = "ipyconfig"
    /\ \/ /\ fs' = [fs EXCEPT ![IPythonConfig] =
                       AppendSnippet(fs[IPythonConfig], Snippet(args.prefix, pyver))]
          /\ Advance("ipyconfig")
          /\ UNCHANGED countVars
       \/ /\ fs' = fs                      \* open raised
          /\ Raise("ipyconfig")
       \/ /\ fs' = [fs EXCEPT ![IPythonConfig] = AppendLines(fs[IPythonConfig], <<>>)]
          /\ Raise("ipyconfig")            \* the write raised, nothing written
       \/ /\ \E piece \in {HarmlessPiece, BreakingPiece,
                            Snippet(args.prefix, pyver)} :    \* ... or part-way
                fs' = [fs EXCEPT ![IPythonConfig] = TornSnippet(fs[IPythonConfig], piece)]
          /\ Raise("ipyconfig")
    /\ UNCHANGED << condaMeta, sysPath, executable, args, env, status,
                    restartRequested >>
    /\ UNCHANGED hostVars

\* sitepackages = ... ; if sitepackages not in sys.path: sys.path.insert(0, ...)
SysPathStep ==
    /\ pc = "syspath"
    /\ sysPath' = InsertSitePackages(sysPath, SitePackages(args.prefix, pyver))
    /\ Advance("syspath")
    /\ UNCHANGED << fs, condaMeta, executable, args, env, status, restartRequested >>
    /\ UNCHANGED countVars
    /\ UNCHANGED hostVars

\* env = env or {} ; env["LD_LIBRARY_PATH"] = ...
EnvStep ==
    /\ pc = "env"
    /\ env' = MergeEnv(args.env, args.prefix)
    /\ Advance("env")
    /\ UNCHANGED << fs, condaMeta, sysPath, executable, args, status,
                    restartRequested >>
    /\ UNCHANGED countVars
    /\ UNCHANGED hostVars

\* os.rename(sys.executable, f"{sys.executable}.real")
RenameStep ==
    /\ pc = "rename"
    /\ \/ /\ fs[executable].kind # "none"
          /\ fs' = Rename(fs, executable, Real(executable))
          /\ Advance("rename")
          /\ UNCHANGED countVars
       \/ /\ fs' = fs
          /\ Raise("rename")
    /\ UNCHANGED << condaMeta, sysPath, executable, args, env, status,
                    restartRequested >>
    /\ UNCHANGED hostVars

\* with open(sys.executable, "w") as f: two writes
WriteShim ==
    /\ pc = "writeshim"
    /\ \/ /\ fs' = [fs EXCEPT ![executable] = Shim(env, args.prefix)]
          /\ Advance("writeshim")
          /\ UNCHANGED countVars
       \/ /\ fs' = fs                      \* open raised
          /\ Raise("writeshim")
       \/ /\ \E left \in {EmptyFile, ShebangOnly, TornShim} :   \* a write raised
                fs' = [fs EXCEPT ![executable] = left]
          /\ Raise("writeshim")
    /\ UNCHANGED << condaMeta, sysPath, executable, args, env, status,
                    restartRequested >>
    /\ UNCHANGED hostVars

\* call(["chmod", "+x", sys.executable])
Chmod ==
    /\ pc = "chmod"
    /\ \/ \E st \in ExitStatuses :
             /\ fs' = IF st = 0
                      THEN [fs EXCEPT ![executable] = MarkExecutable(fs[executable])]
                      ELSE fs
             /\ status' = [status EXCEPT !.chmod = st]
             /\ Returned(st, "chmod")
       \/ /\ Raise("chmod")               \* chmod could not be started
          /\ UNCHANGED << fs, status >>
    /\ UNCHANGED << condaMeta, sysPath, executable, args, env, restartRequested >>
    /\ UNCHANGED hostVars

\* get_ipython().kernel.do_shutdown(True), then the function returns
Shutdown ==
    /\ pc = "shutdown"
    /\ restartRequested' = TRUE
    /\ Advance("shutdown")
    /\ completed' = [completed EXCEPT ![args.prefix] = @ + 1]
    /\ hostRuns' = IF executable = HostExe THEN hostRuns + 1 ELSE hostRuns
    /\ UNCHANGED << fs, condaMeta, sysPath, executable, args, env, status,
                    nCalls, start, aborted >>
    /\ UNCHANGED hostVars

\* --------------------------------------------------------- kernel restart
\* Following the exec lines of the shims from `path`: the path of the binary
\* that ends up running, or "" when the chain breaks (a missing or
\* non-executable file) or never reaches a binary.
RECURSIVE Resolve(_, _, _)
Resolve(files, path, fuel) ==
    IF fuel = 0 \/ path \notin ExePaths THEN ""
    ELSE LET f == files[path]
         IN IF f.kind = "binary" THEN path
            ELSE IF f.kind = "shim" /\ f.mode = "rwx" /\ f.exec # <<>>
                 THEN Resolve(files, f.target, fuel - 1)
                 ELSE ""
Invoke(files, path) == Resolve(files, path, Cardinality(ExePaths) + 1)

\* LD_LIBRARY_PATH of the process that ends up running: each shim on the way
\* sets it to its quoted value, in which the shell puts the value it received
\* (nothing, when the variable was not set) in place of $LD_LIBRARY_PATH.
Expand(value, ld) ==
    IF \E p \in Prefixes : value = SystemLd(p)
    THEN LET p == CHOOSE q \in Prefixes : value = SystemLd(q)
         IN [set |-> TRUE, value |-> <<p, "/lib", ":">> \o ld.value]
    ELSE [set |-> TRUE, value |-> <<value>>]
RECURSIVE ApplyEnv(_, _)
ApplyEnv(items, ld) ==
    IF items = <<>> THEN ld
    ELSE ApplyEnv(Tail(items),
                  IF Head(items)[1] = LD THEN Expand(Head(items)[2], ld) ELSE ld)
RECURSIVE EnvAfter(_, _, _, _)
EnvAfter(files, path, ld, fuel) ==
    IF fuel = 0 \/ path \notin ExePaths THEN ld
    ELSE LET f == files[path]
         IN IF f.kind = "shim" /\ f.mode = "rwx" /\ f.exec # <<>>
            THEN EnvAfter(files, f.target, ApplyEnv(f.env, ld), fuel - 1)
            ELSE ld

\* sys.path of a freshly started interpreter, after the exec_lines of the
\* start-up script ran; of several assignments to exec_lines the last one
\* wins, and a script that does not compile sets none. The entries of
\* exec_lines are run one at a time: the "if" entry alone is an incomplete
\* statement and does nothing, the insert entry runs on its own, so the path
\* is inserted whether or not it is already there.
DefaultPath(binary, ver) ==
    IF binary.id = "host" THEN <<HostSitePackages>>
    ELSE <<StdLib(binary.id, ver), SitePackages(binary.id, ver)>>
Compiles(f) == Frag(f) # BreakingPiece /\ ~InSeq(BreakingPiece, Lines(f))
RunExecLines(path, sp) == <<sp>> \o path
StartupPath(files, binary, ver) ==
    LET f == files[IPythonConfig]
        entries == Lines(f) \o (IF Frag(f) = "" THEN <<>> ELSE <<Frag(f)>>)
        snippets == Without(HarmlessPiece, entries)
    IN IF snippets = <<>> \/ ~Compiles(f)
       THEN DefaultPath(binary, ver)
       ELSE RunExecLines(DefaultPath(binary, ver), snippets[Len(snippets)])

\* The host relaunches the kernel by invoking the original executable path.
KernelRestart ==
    /\ pc \in {"idle", "done", "raised"}
    /\ LET exe == Invoke(fs, HostExe)
       IN IF exe = ""
          THEN /\ pc' = "dead"
               /\ UNCHANGED << executable, sysPath, osEnvLd >>
          ELSE /\ pc' = "idle"
               /\ executable' = exe
               /\ sysPath' = StartupPath(fs, fs[exe], pyver)
               /\ osEnvLd' = EnvAfter(fs, HostExe, launcherLd, Cardinality(ExePaths) + 1)
    /\ restartRequested' = FALSE
    /\ args' = NoArgs
    /\ env' = <<>>
    /\ status' = NoStatus
    /\ steps' = <<>>
    /\ failedAt' = "none"
    /\ UNCHANGED << fs, condaMeta, nCalls, start, completed, hostRuns, aborted,
                    pyver, cudaEnv, launcherLd, condaFound, checkResult, callLimit >>

\* ------------------------------------------------------------------ check
Contains(needle, hay) ==
    \E i \in 1..(Len(hay) - Len(needle) + 1) :
        SubSeq(hay, i, i + Len(needle) - 1) = needle
LibDirPieces(p) == <<p, "/lib">>

Passed == [exc |-> "none", msg |-> ""]
AssertionError(m) == [exc |-> "AssertionError", msg |-> m]
KeyError(k) == [exc |-> "KeyError", msg |-> k]
CondaMsg == "Conda not found!"
PythonPathMsg == "PYTHONPATH was not patched!"
LdMsg == "LD_LIBRARY_PATH was not patched!"

\* The three assertions of check(), the first failing one raising.
CheckOutcome(p, found, path, ld, ver) ==
    IF ~found THEN AssertionError(CondaMsg)
    ELSE IF ~InSeq(SitePackages(p, ver), path) THEN AssertionError(PythonPathMsg)
    ELSE IF ~ld.set THEN KeyError(LD)
    ELSE IF ~Contains(LibDirPieces(p), ld.value) THEN AssertionError(LdMsg)
    ELSE Passed

Check ==
    /\ pc = "idle"
    /\ \E p \in Prefixes :
          checkResult' = [prefix |-> p] @@ CheckOutcome(p, condaFound, sysPath, osEnvLd, pyver)
    /\ UNCHANGED << fs, condaMeta, sysPath, executable, pyver, cudaEnv, pc, args,
                    env, status, steps, failedAt, restartRequested, nCalls,
                    callLimit, start, completed, hostRuns, aborted, osEnvLd,
                    launcherLd, condaFound >>

Next ==
    \/ Call
    \/ Download
    \/ Install
    \/ UnlinkInstaller
    \/ Mkdir
    \/ Pin
    \/ CondarcStep
    \/ IpyConfigStep
    \/ SysPathStep
    \/ EnvStep
    \/ RenameStep
    \/ WriteShim
    \/ Chmod
    \/ Shutdown
    \/ KernelRestart

Spec == Init /\ [][Next]_vars


\* install_from_url called once, on an arbitrary sys.path.
InitPath ==
    /\ InitCommon
    /\ callLimit = 1
    /\ fs = FreshFiles
    /\ condaMeta = {}
    /\ pyver \in Versions
    /\ cudaEnv = <<>>
    /\ sysPath \in SeqsUpTo(PathEntries(pyver), MaxPathLen)
    /\ start = Snapshot(fs, sysPath, executable, FALSE)
    /\ osEnvLd = Unset
    /\ launcherLd = osEnvLd
    /\ condaFound = FALSE

SpecPath == InitPath /\ [][Next]_vars

\* check() on an arbitrary sys.path, LD_LIBRARY_PATH and PATH.
InitCheck ==
    /\ InitCommon
    /\ callLimit = 0
    /\ fs = FreshFiles
    /\ condaMeta = {}
    /\ pyver \in Versions
    /\ cudaEnv = <<>>
    /\ sysPath \in SeqsUpTo(PathEntries(pyver), MaxPathLen - 1)
    /\ start = Snapshot(fs, sysPath, executable, FALSE)
    /\ osEnvLd \in {Unset} \cup {[set |-> TRUE, value |-> v] : v \in SeqsUpTo(LdPieces, MaxLdLen)}
    /\ launcherLd = osEnvLd
    /\ condaFound \in BOOLEAN

NextCheck == Check

SpecCheck == InitCheck /\ [][NextCheck]_vars

\* ================================================================== claims
Running == pc \in {"download", "install", "unlink", "mkdir", "pin", "condarc",
                   "ipyconfig", "syspath", "env", "rename", "writeshim",
                   "chmod", "shutdown"}
Did(step) == InSeq(step, steps)
SubprocessesOk == status.installer = 0 /\ status.chmod = 0

\* C1: once a call of install_from_url has returned with both subprocesses
\* exiting 0, invoking the original executable path runs the shim and ends in
\* the interpreter at <prefix>/bin/python, also when the call was made by an
\* interpreter that an earlier kernel restart started.
C1_RoutesAfterEveryRun ==
    (pc = "done" /\ SubprocessesOk) =>
        /\ fs[HostExe].kind = "shim"
        /\ Invoke(fs, HostExe) = PrefixPython(args.prefix)

\* C2: when a call made with sys.executable at the host's original path
\* returns, the installer file is gone, the executable path holds the shim and
\* <path>.real holds what the executable path held when the call began.
C2_FinalState ==
    (pc = "done" /\ executable = HostExe) =>
        /\ fs[installer_fn] = NoFile
        /\ fs[executable].kind = "shim"
        /\ fs[executable].exec = ExecLine(env, args.prefix)
        /\ fs[executable] # HostBinary
        /\ fs[Real(executable)] = start.fs[executable]
C2_Witness ==
    /\ pc = "done"
    /\ nCalls = 1
    /\ fs[installer_fn] = NoFile
    /\ fs[HostExe].kind = "shim"
    /\ fs[Real(HostExe)] = HostBinary

\* C3: after two calls made with the same executable path have returned, the
\* host's original binary is still somewhere on disk.
C3_OriginalSurvivesSecondRun ==
    (pc = "done" /\ hostRuns >= 2) => \E q \in ExePaths : fs[q] = HostBinary

\* C4 as stated: after the rebinding step the site-packages path occurs
\* exactly once in sys.path and is its first element, the other entries
\* keeping their relative order, whatever sys.path held before.
C4_OnceAtFront ==
    Did("syspath") =>
        LET sp == SitePackages(args.prefix, pyver)
        IN /\ Count(sp, sysPath) = 1
           /\ sysPath[1] = sp
           /\ Without(sp, sysPath) = Without(sp, start.sysPath)

\* C4 amended: after the rebinding step the site-packages path is in sys.path;
\* if it was absent before it has been inserted once at the front, and if it
\* was present before, wherever and however often, sys.path is unchanged. The
\* other entries keep their relative order.
C4_InsertedOnlyIfAbsent ==
    Did("syspath") =>
        LET sp == SitePackages(args.prefix, pyver)
        IN /\ InSeq(sp, sysPath)
           /\ Without(sp, sysPath) = Without(sp, start.sysPath)
           /\ InSeq(sp, start.sysPath) => sysPath = start.sysPath
           /\ ~InSeq(sp, start.sysPath) => (Count(sp, sysPath) = 1 /\ sysPath[1] = sp)
C4_Witness ==
    /\ pc = "done"
    /\ Len(start.sysPath) >= 2
    /\ start.sysPath[1] # SitePackages(args.prefix, pyver)
    /\ InSeq(SitePackages(args.prefix, pyver), start.sysPath)
    /\ sysPath = start.sysPath

\* C5: the exec line of the shim has exactly one LD_LIBRARY_PATH assignment,
\* with the system-computed value; the caller's value for that key is not in
\* it; every other key of the caller is in it exactly once as KEY=VALUE.
LdValues == {SystemLd(p) : p \in Prefixes} \cup {CallerLd}
              \cup UNION {{e.items[i][2] : i \in 1..Len(e.items)} : e \in EnvArgs}
LdWords == {LD \o "=" \o v : v \in LdValues}
CountIn(S, s) == Cardinality({i \in 1..Len(s) : s[i] \in S})
C5_EnvMerge ==
    (Did("writeshim") /\ pc # "raised") =>
        LET line == fs[executable].exec
            caller == args.env.items
            others == {i \in 1..Len(caller) : caller[i][1] # LD}
        IN /\ CountIn(LdWords, line) = 1
           /\ Count(LD \o "=" \o SystemLd(args.prefix), line) = 1
           /\ \A i \in 1..Len(caller) :
                 caller[i][1] = LD => ~InSeq(LD \o "=" \o caller[i][2], line)
           /\ \A i \in others : Count(caller[i][1] \o "=" \o caller[i][2], line) = 1
           /\ Len(line) = 2 + Cardinality(others) + 1 + 3
           /\ SubSeq(line, 1, 2) = <<"exec", "env">>
           /\ SubSeq(line, Len(line) - 2, Len(line)) = <<PrefixPython(args.prefix), "-x", "$@">>
C5_Witness ==
    /\ pc = "done"
    /\ HasKey(args.env.items, LD)
    /\ HasKey(args.env.items, "FOO")
    /\ InSeq(LD \o "=" \o SystemLd(args.prefix), fs[executable].exec)

\* C6: when N calls against a prefix have returned and none has raised, the
\* pin file holds each of the three pin lines N times and the run-control
\* file holds the always_yes line N times; and at every moment both files
\* begin with what they held when the current call began.
C6_AppendOnly ==
    /\ (aborted = 0 /\ ~Running) =>
          \A p \in Prefixes :
             /\ \A i \in 1..3 :
                   Count(PinLines(pyver, cudaEnv)[i], Lines(fs[Pinned(p)])) = completed[p]
             /\ Count(CondarcLine, Lines(fs[Condarc(p)])) = completed[p]
             /\ Len(Lines(fs[Condarc(p)])) = completed[p]
    /\ \A p \in Prefixes :
          /\ IsPrefix(Lines(start.fs[Pinned(p)]), Lines(fs[Pinned(p)]))
          /\ IsPrefix(Lines(start.fs[Condarc(p)]), Lines(fs[Condarc(p)]))
C6_Witness ==
    /\ pc = "done"
    /\ aborted = 0
    /\ completed[PREFIX] = 2
    /\ Count(ForeignPin, Lines(fs[Pinned(PREFIX)])) = 1
    /\ Count(CondarcLine, Lines(fs[Condarc(PREFIX)])) = 2

\* C7: check(prefix) passes exactly when conda is found, the site-packages
\* path is in sys.path and LD_LIBRARY_PATH contains <prefix>/lib; otherwise it
\* raises an AssertionError carrying the message of the first failed
\* condition, also when LD_LIBRARY_PATH is not set.
C7_CheckAsserts ==
    (checkResult.prefix # "") =>
        LET p == checkResult.prefix
            c1 == condaFound
            c2 == InSeq(SitePackages(p, pyver), sysPath)
            c3 == osEnvLd.set /\ Contains(LibDirPieces(p), osEnvLd.value)
        IN /\ (checkResult.exc = "none") <=> (c1 /\ c2 /\ c3)
           /\ ~c1 => (checkResult.exc = "AssertionError" /\ checkResult.msg = CondaMsg)
           /\ (c1 /\ ~c2) =>
                 (checkResult.exc = "AssertionError" /\ checkResult.msg = PythonPathMsg)
           /\ (c1 /\ c2 /\ ~c3) =>
                 (checkResult.exc = "AssertionError" /\ checkResult.msg = LdMsg)

\* C8: a step that raises ends the call there: the steps before it have run
\* and none after it, the restart is not requested, and what the earlier steps
\* did is still in place; a failed download leaves the installer unexecuted
\* and every file but the installer file, and sys.path, as they were.
C8_RaiseHalts ==
    (failedAt # "none") =>
        LET p == args.prefix
            sp == SitePackages(p, pyver)
        IN /\ pc = "raised"
           /\ steps = SubSeq(StepOrder, 1, StepIndex(failedAt) - 1)
           /\ ~Did("shutdown")
           /\ restartRequested = start.requested
           /\ Did("unlink") => fs[installer_fn] = NoFile
           /\ Did("pin") =>
                 /\ IsPrefix(Lines(start.fs[Pinned(p)]), Lines(fs[Pinned(p)]))
                 /\ Len(Lines(fs[Pinned(p)])) = Len(Lines(start.fs[Pinned(p)])) + 3
                 /\ Frag(start.fs[Pinned(p)]) = "" =>
                       Lines(fs[Pinned(p)]) =
                          Lines(start.fs[Pinned(p)]) \o PinLines(pyver, cudaEnv)
           /\ Did("condarc") =>
                 /\ IsPrefix(Lines(start.fs[Condarc(p)]), Lines(fs[Condarc(p)]))
                 /\ Len(Lines(fs[Condarc(p)])) = Len(Lines(start.fs[Condarc(p)])) + 1
                 /\ Frag(start.fs[Condarc(p)]) = "" =>
                       Lines(fs[Condarc(p)]) =
                          Lines(start.fs[Condarc(p)]) \o <<CondarcLine>>
           /\ Did("ipyconfig") =>
                 LET now == Lines(fs[IPythonConfig])
                     before == Lines(start.fs[IPythonConfig])
                 IN /\ IsPrefix(before, now)
                    /\ now # <<>> /\ now[Len(now)] = Snippet(p, pyver)
                    /\ Frag(fs[IPythonConfig]) = ""
                    /\ Frag(start.fs[IPythonConfig]) = "" =>
                          now = before \o <<Snippet(p, pyver)>>
           /\ Did("syspath") => InSeq(sp, sysPath)
           /\ Did("rename") => fs[Real(executable)].kind # "none"
           /\ failedAt = "download" =>
                 /\ status.installer = -1
                 /\ sysPath = start.sysPath
                 /\ \A q \in Paths \ {installer_fn} : fs[q] = start.fs[q]
C8_Witness ==
    /\ pc = "raised"
    /\ failedAt = "writeshim"
    /\ fs[executable] = NoFile
    /\ Did("rename")
    /\ Len(Lines(fs[Pinned(args.prefix)])) >= 3

\* C9: no exit status ends the call: a subprocess step counts as the failed
\* step only when the subprocess returned no status at all, a subprocess that
\* has returned a status has its step completed, and a call that returns has
\* run every step in order, deleted the installer file and requested the
\* restart, whatever the two exit statuses were.
C9_StatusIgnored ==
    /\ failedAt = "install" => status.installer = -1
    /\ failedAt = "chmod" => status.chmod = -1
    /\ status.installer # -1 => Did("install")
    /\ status.chmod # -1 => (Did("chmod") /\ pc \in {"shutdown", "done"})
    /\ pc = "done" =>
          /\ steps = StepOrder
          /\ restartRequested
          /\ fs[installer_fn] = NoFile
C9_Witness ==
    /\ pc = "done"
    /\ status.installer = 1
    /\ status.chmod = 1
    /\ steps = StepOrder

\* C10 as stated: during and after a first call the host's binary is at
\* exactly one of the original path and <path>.real, and the restart has been
\* requested only with the shim written at the original path and marked
\* executable.
C10_MarkedExecutableBeforeRestart ==
    (nCalls <= 1) =>
        /\ Cardinality({q \in {HostExe, Real(HostExe)} : fs[q] = HostBinary}) = 1
        /\ restartRequested =>
              /\ fs[HostExe].kind = "shim"
              /\ fs[HostExe].exec # <<>>
              /\ fs[HostExe].mode = "rwx"

\* C10, amended: during and after a first call the host's binary is at exactly
\* one of the original path and <path>.real, and the restart has been
\* requested only once the rename, the shim write and chmod have all run, with
\* the shim at the original path; the shim is marked executable exactly when
\* chmod exited 0.
C10_NonAtomicReplace ==
    (nCalls <= 1) =>
        /\ Cardinality({q \in {HostExe, Real(HostExe)} : fs[q] = HostBinary}) = 1
        /\ restartRequested =>
              /\ SubSeq(steps, 10, 13) = <<"rename", "writeshim", "chmod", "shutdown">>
              /\ fs[HostExe].kind = "shim"
              /\ fs[HostExe].exec # <<>>
              /\ status.chmod # -1
              /\ (status.chmod = 0) <=> (fs[HostExe].mode = "rwx")
C10_Witness ==
    /\ nCalls = 1
    /\ pc = "writeshim"
    /\ fs[HostExe] = NoFile
    /\ fs[Real(HostExe)] = HostBinary

====
